---- MODULE Spec2Model ----
(***************************************************************************)
(* A model of dsi-progress-logger's ProgressLogger (src/src/lib.rs).       *)
(*                                                                         *)
(* The struct is the record `self`; each method is an operator from the    *)
(* struct (and the instants it reads from the clock) to a result record    *)
(* holding the new struct, the lines handed to the log sink, the number of *)
(* throttle checks (calls of log_if) and whether the call panicked.        *)
(* Instants and durations are naturals in one scaled time unit.            *)
(* item_name, time_unit, system and pid only change the text of a clause   *)
(* and are left out; a render is the record of the clauses fmt writes.     *)
(***************************************************************************)
EXTENDS Integers, Sequences, FiniteSets, TLC

\* ---- bounds ------------------------------------------------------------
MaxTime == 2
MaxInterval == 2
MaxExpected == 1
MaxArg == 2
MaxCount == 3
LightBits == 1
UsizeBits == 8

\* the default log interval (10 s) in the model's time unit of 5 s
LogIntervalDefault == 2

Time == 0 .. MaxTime
\* the values assigned to log_interval, expected_updates and count arguments
Intervals == {1, MaxInterval}
Expected == {MaxExpected}
Args == {0, 1, MaxArg}
Messages == {"go", "again"}

\* ---- Option<T> ---------------------------------------------------------
None == << >>
Some(x) == << x >>
Unwrap(o) == o[1]

Min(a, b) == IF a <= b THEN a ELSE b

\* bitwise and of two naturals, as `&` on usize
RECURSIVE BitAnd(_, _)
BitAnd(a, b) ==
  IF a = 0 \/ b = 0 THEN 0
  ELSE (a % 2) * (b % 2) + 2 * BitAnd(a \div 2, b \div 2)

LIGHT_UPDATE_MASK == 2 ^ LightBits - 1

\* ---- lines handed to the log sink (info!) -------------------------------
NoRender ==
  [branch |-> "none", panic |-> FALSE, elapsed |-> None, count |-> None,
   rate |-> None, eta |-> None, local |-> None]

Message(text) == [kind |-> "message", text |-> text, render |-> NoRender]
Status(r) == [kind |-> "status", text |-> "", render |-> r]

\* the result of a method call
Ret(s, out, checks, panic) ==
  [self |-> s, out |-> out, checks |-> checks, panic |-> panic]

\* ---- the struct after ProgressLogger::default() ------------------------
\* t1 and t2 are the two successive Instant::now() reads
Default(t1, t2) ==
  [log_interval |-> LogIntervalDefault,
   expected_updates |-> None,
   local_speed |-> FALSE,
   start_time |-> None,
   last_log_time |-> t1,
   next_log_time |-> t2,
   stop_time |-> None,
   count |-> 0,
   last_count |-> 0]

\* ---- Display::fmt ------------------------------------------------------
\* oc: the build checks integer overflow (debug) or wraps (release).
\* rate and local are <<duration, items>>, the two operands of the f64
\* division; eta is <<expected - count as usize, elapsed, count + 1>>.
\* (fmt_to_now: fmt as it would be if the stopped branch measured the
\* elapsed time up to the present)
fmt_to_now(self, now, oc) ==
  IF self.start_time = None
  THEN [NoRender EXCEPT !.branch = "not_started"]
  ELSE LET start_time == Unwrap(self.start_time) IN
    IF self.stop_time # None
    THEN LET elapsed == now - start_time IN
      [branch |-> "stopped", panic |-> FALSE,
       elapsed |-> Some(elapsed),
       count |-> IF self.count # 0 THEN Some(self.count) ELSE None,
       rate |-> IF self.count # 0 THEN Some(<<elapsed, self.count>>) ELSE None,
       eta |-> None, local |-> None]
    ELSE LET elapsed == now - start_time
             underflow == /\ self.expected_updates # None
                          /\ Unwrap(self.expected_updates) < self.count
      IN
      IF underflow /\ oc
      THEN [NoRender EXCEPT !.branch = "running", !.panic = TRUE]
      ELSE
      [branch |-> "running", panic |-> FALSE,
       elapsed |-> Some(elapsed),
       count |-> Some(self.count),
       rate |-> Some(<<elapsed, self.count>>),
       eta |-> IF self.expected_updates = None THEN None
               ELSE Some(<<(Unwrap(self.expected_updates) - self.count)
                              % (2 ^ UsizeBits),
                           elapsed, self.count + 1>>),
       local |-> IF self.local_speed /\ self.stop_time = None
                 THEN Some(<<now - self.last_log_time,
                             self.count - self.last_count>>)
                 ELSE None]

\* fmt as it would be if the stopped branch did not test count != 0
fmt_unguarded(self, now, oc) ==
  IF self.start_time = None
  THEN [NoRender EXCEPT !.branch = "not_started"]
  ELSE LET start_time == Unwrap(self.start_time) IN
    IF self.stop_time # None
    THEN LET elapsed == Unwrap(self.stop_time) - start_time IN
      [branch |-> "stopped", panic |-> FALSE,
       elapsed |-> Some(elapsed),
       count |-> Some(self.count),
       rate |-> Some(<<elapsed, self.count>>),
       eta |-> None, local |-> None]
    ELSE LET elapsed == now - start_time
             underflow == /\ self.expected_updates # None
                          /\ Unwrap(self.expected_updates) < self.count
      IN
      IF underflow /\ oc
      THEN [NoRender EXCEPT !.branch = "running", !.panic = TRUE]
      ELSE
      [branch |-> "running", panic |-> FALSE,
       elapsed |-> Some(elapsed),
       count |-> Some(self.count),
       rate |-> Some(<<elapsed, self.count>>),
       eta |-> IF self.expected_updates = None THEN None
               ELSE Some(<<(Unwrap(self.expected_updates) - self.count)
                              % (2 ^ UsizeBits),
                           elapsed, self.count + 1>>),
       local |-> IF self.local_speed /\ self.stop_time = None
                 THEN Some(<<now - self.last_log_time,
                             self.count - self.last_count>>)
                 ELSE None]

fmt(self, now, oc) ==
  IF self.start_time = None
  THEN [NoRender EXCEPT !.branch = "not_started"]
  ELSE LET start_time == Unwrap(self.start_time) IN
    IF self.stop_time # None
    THEN LET elapsed == Unwrap(self.stop_time) - start_time IN
      [branch |-> "stopped", panic |-> FALSE,
       elapsed |-> Some(elapsed),
       count |-> IF self.count # 0 THEN Some(self.count) ELSE None,
       rate |-> IF self.count # 0 THEN Some(<<elapsed, self.count>>) ELSE None,
       eta |-> None, local |-> None]
    ELSE LET elapsed == now - start_time
             underflow == /\ self.expected_updates # None
                          /\ Unwrap(self.expected_updates) < self.count
      IN
      IF underflow /\ oc
      THEN [NoRender EXCEPT !.branch = "running", !.panic = TRUE]
      ELSE
      [branch |-> "running", panic |-> FALSE,
       elapsed |-> Some(elapsed),
       count |-> Some(self.count),
       rate |-> Some(<<elapsed, self.count>>),
       eta |-> IF self.expected_updates = None THEN None
               ELSE Some(<<(Unwrap(self.expected_updates) - self.count)
                              % (2 ^ UsizeBits),
                           elapsed, self.count + 1>>),
       local |-> IF self.local_speed /\ self.stop_time = None
                 THEN Some(<<now - self.last_log_time,
                             self.count - self.last_count>>)
                 ELSE None]

\* ---- methods -----------------------------------------------------------
\* start as it would be if it forgot to reset the count snapshot
start_keeps_last_count(self, now, msg) ==
  Ret([self EXCEPT !.start_time = Some(now),
                   !.stop_time = None,
                   !.count = 0,
                   !.last_log_time = now,
                   !.next_log_time = now + self.log_interval],
      << Message(msg) >>, 0, FALSE)

\* start as it would be if it forgot to clear the stop time
start_keeps_stop_time(self, now, msg) ==
  Ret([self EXCEPT !.start_time = Some(now),
                   !.count = 0,
                   !.last_count = 0,
                   !.last_log_time = now,
                   !.next_log_time = now + self.log_interval],
      << Message(msg) >>, 0, FALSE)

start(self, now, msg) ==
  Ret([self EXCEPT !.start_time = Some(now),
                   !.stop_time = None,
                   !.count = 0,
                   !.last_count = 0,
                   !.last_log_time = now,
                   !.next_log_time = now + self.log_interval],
      << Message(msg) >>, 0, FALSE)

\* now: the instant passed in; rnow: the instant fmt reads while rendering
\* log as it would be with the count snapshot assigned the wrong way round
log_swapped(self, now, rnow, oc) ==
  LET r == fmt(self, rnow, oc) IN
  IF r.panic THEN Ret(self, << >>, 0, TRUE)
  ELSE Ret([self EXCEPT !.count = self.last_count,
                        !.last_log_time = now,
                        !.next_log_time = now + self.log_interval],
           << Status(r) >>, 0, FALSE)

\* log as it would be if it refreshed the count snapshot before rendering
log_refresh_first(self, now, rnow, oc) ==
  LET s == [self EXCEPT !.last_count = self.count]
      r == fmt(s, rnow, oc)
  IN IF r.panic THEN Ret(s, << >>, 0, TRUE)
     ELSE Ret([s EXCEPT !.last_log_time = now,
                        !.next_log_time = now + self.log_interval],
              << Status(r) >>, 0, FALSE)

\* log as it would be if it left next_log_time alone
log_keeps_next(self, now, rnow, oc) ==
  LET r == fmt(self, rnow, oc) IN
  IF r.panic THEN Ret(self, << >>, 0, TRUE)
  ELSE Ret([self EXCEPT !.last_count = self.count,
                        !.last_log_time = now],
           << Status(r) >>, 0, FALSE)

log(self, now, rnow, oc) ==
  LET r == fmt(self, rnow, oc) IN
  IF r.panic THEN Ret(self, << >>, 0, TRUE)
  ELSE Ret([self EXCEPT !.last_count = self.count,
                        !.last_log_time = now,
                        !.next_log_time = now + self.log_interval],
           << Status(r) >>, 0, FALSE)

\* log_if as it would be if it compared with the last log time
log_if_early(self, now, rnow, oc) ==
  IF self.last_log_time <= now
  THEN [log(self, now, rnow, oc) EXCEPT !.checks = 1]
  ELSE Ret(self, << >>, 1, FALSE)

log_if(self, now, rnow, oc) ==
  IF self.next_log_time <= now
  THEN [log(self, now, rnow, oc) EXCEPT !.checks = 1]
  ELSE Ret(self, << >>, 1, FALSE)

update(self, now, rnow, oc) ==
  log_if([self EXCEPT !.count = @ + 1], now, rnow, oc)

\* update_with_count as it would be if it set the count ("Set the count ...")
update_with_count_sets(self, count, now, rnow, oc) ==
  log_if([self EXCEPT !.count = count], now, rnow, oc)

update_with_count(self, count, now, rnow, oc) ==
  log_if([self EXCEPT !.count = @ + count], now, rnow, oc)

\* light_update as it would be if it tested the count before incrementing it
light_update_pre(self, now, rnow, oc) ==
  LET s == [self EXCEPT !.count = @ + 1] IN
  IF BitAnd(self.count, LIGHT_UPDATE_MASK) = 0
  THEN log_if(s, now, rnow, oc)
  ELSE Ret(s, << >>, 0, FALSE)

light_update(self, now, rnow, oc) ==
  LET s == [self EXCEPT !.count = @ + 1] IN
  IF BitAnd(s.count, LIGHT_UPDATE_MASK) = 0
  THEN log_if(s, now, rnow, oc)
  ELSE Ret(s, << >>, 0, FALSE)

update_and_display(self, now, rnow, oc) ==
  log([self EXCEPT !.count = @ + 1], now, rnow, oc)

\* stop as it would be if it left expected_updates alone
stop_keeps_expected(self, now) ==
  Ret([self EXCEPT !.stop_time = Some(now)], << >>, 0, FALSE)

\* stop as it would be if it fixed the stop time only once per activity
stop_once(self, now) ==
  Ret([self EXCEPT !.stop_time = IF @ = None THEN Some(now) ELSE @,
                   !.expected_updates = None],
      << >>, 0, FALSE)

stop(self, now) ==
  Ret([self EXCEPT !.stop_time = Some(now), !.expected_updates = None],
      << >>, 0, FALSE)

done(self, now, oc) ==
  LET s == [stop(self, now).self EXCEPT !.expected_updates = None]
      r == fmt(s, now, oc)
  IN IF r.panic THEN Ret(s, << Message("Completed.") >>, 0, TRUE)
     ELSE Ret(s, << Message("Completed."), Status(r) >>, 0, FALSE)

\* done_with_count as it would be if it set the count after done()
done_with_count_late(self, count, now, oc) ==
  LET r == done(self, now, oc) IN
  [r EXCEPT !.self = [r.self EXCEPT !.count = count]]

done_with_count(self, count, now, oc) ==
  done([self EXCEPT !.count = count], now, oc)

\* elapsed(): the time since start_time, None when it is absent
elapsed(self, now) ==
  IF self.start_time = None THEN None
  ELSE Some(now - Unwrap(self.start_time))

\* ---- state --------------------------------------------------------------
VARIABLES
  self,             \* the ProgressLogger struct
  now,              \* the monotonic clock, Instant::now()
  overflow_checks,  \* the build: TRUE panics on integer overflow, FALSE wraps
  panicked,         \* a call has panicked: the thread is unwinding
  last,             \* the last call: its name, argument, entry instant,
                    \* the lines it handed to the sink, its throttle checks
                    \* and, for to_string, the render it returned
  hist              \* history of the current activity (see StepHist)

vars == << self, now, overflow_checks, panicked, last, hist >>

UpdateOps == {"update", "update_with_count", "light_update", "update_and_display"}
ThrottledOps == {"update", "update_with_count", "light_update"}
TerminalOps == {"stop", "done", "done_with_count"}

Lifecycle(s) ==
  IF s.start_time = None THEN "NotStarted"
  ELSE IF s.stop_time = None THEN "Running" ELSE "Stopped"

\* NoCall: the step was no method call (the clock advanced, a field was set);
\* from and count0 are the lifecycle and the count the call found, since_log
\* the time since the last status line of an update call of this activity
NoCall == [op |-> "none", arg |-> 0, msg |-> "", at |-> 0, from |-> "NotStarted",
           count0 |-> 0, since_log |-> None, out |-> << >>, checks |-> 0,
           ret |-> NoRender, val |-> None]

HasStatus(out) == \E i \in 1 .. Len(out) : out[i].kind = "status"

\* hist.sum: the sum of the increments of the update calls since start, or -1
\*   when start was never called or another method was called since;
\* hist.light_calls / light_checks: the number of light_update calls since
\*   start and of the throttle checks they made, light_calls = -1 when another
\*   method was called since start;
\* hist.prev_line_at: the instant of the last status line of this activity;
\* hist.prev_log_at: the same, counting only the lines of update calls;
\* hist.interval_const: log_interval was not assigned since start;
\* hist.started: start was called at least once;
\* hist.overdue: while only light_update was called since start, the number
\*   of light_update calls in a row that were entered at or after
\*   next_log_time and emitted no status line.
NoHist ==
  [sum |-> -1, light_calls |-> -1, light_checks |-> 0,
   prev_line_at |-> None, prev_log_at |-> None, interval_const |-> FALSE,
   started |-> FALSE, overdue |-> 0]

StepHist(op, incr, res) ==
  IF op = "start"
  THEN [sum |-> 0, light_calls |-> 0, light_checks |-> 0,
        prev_line_at |-> None, prev_log_at |-> None, interval_const |-> TRUE,
        started |-> TRUE, overdue |-> 0]
  ELSE
  [sum |-> IF op \in UpdateOps /\ hist.sum >= 0 THEN hist.sum + incr ELSE -1,
   light_calls |-> IF op = "light_update" /\ hist.light_calls >= 0
                   THEN hist.light_calls + 1 ELSE -1,
   light_checks |-> IF op = "light_update" /\ hist.light_calls >= 0
                    THEN hist.light_checks + res.checks ELSE 0,
   prev_line_at |-> IF HasStatus(res.out) THEN Some(now) ELSE hist.prev_line_at,
   prev_log_at |-> IF HasStatus(res.out) /\ op \in UpdateOps
                   THEN Some(now) ELSE hist.prev_log_at,
   interval_const |-> hist.interval_const,
   started |-> hist.started,
   overdue |-> IF /\ op = "light_update"
                  /\ hist.light_calls >= 0
                  /\ now >= self.next_log_time
                  /\ ~HasStatus(res.out)
               THEN hist.overdue + 1 ELSE 0]

\* a method call that entered at `now`, returned res and ended at rnow
Call(op, arg, msg, incr, res, rnow) ==
  /\ ~panicked
  /\ self' = res.self
  /\ now' = rnow
  /\ panicked' = res.panic
  /\ last' = [op |-> op, arg |-> arg, msg |-> msg, at |-> now,
              from |-> Lifecycle(self), count0 |-> self.count,
              since_log |-> IF hist.prev_log_at = None THEN None
                            ELSE Some(now - Unwrap(hist.prev_log_at)),
              out |-> res.out, checks |-> res.checks, ret |-> NoRender,
              val |-> None]
  /\ hist' = StepHist(op, incr, res)
  /\ UNCHANGED overflow_checks

Later == now .. Min(now + 1, MaxTime)

Init ==
  /\ now \in 0 .. 1
  /\ self = Default(0, now)
  /\ overflow_checks \in BOOLEAN
  /\ panicked = FALSE
  /\ last = NoCall
  /\ hist = NoHist

\* ---- actions -----------------------------------------------------------
Tick ==
  /\ ~panicked
  /\ now < MaxTime
  /\ now' = now + 1
  /\ last' = NoCall
  /\ UNCHANGED << self, overflow_checks, panicked, hist >>

Start ==
  \E msg \in Messages : Call("start", 0, msg, 0, start(self, now, msg), now)

Update ==
  /\ self.count < MaxCount
  /\ \E rnow \in Later :
       Call("update", 0, "", 1, update(self, now, rnow, overflow_checks), rnow)

UpdateWithCount ==
  \E count \in Args :
    /\ self.count + count <= MaxCount
    /\ \E rnow \in Later :
         Call("update_with_count", count, "", count,
              update_with_count(self, count, now, rnow, overflow_checks), rnow)

LightUpdate ==
  /\ self.count < MaxCount
  /\ \E rnow \in Later :
       Call("light_update", 0, "", 1,
            light_update(self, now, rnow, overflow_checks), rnow)

UpdateAndDisplay ==
  /\ self.count < MaxCount
  /\ \E rnow \in Later :
       Call("update_and_display", 0, "", 1,
            update_and_display(self, now, rnow, overflow_checks), rnow)

Stop == Call("stop", 0, "", 0, stop(self, now), now)

Done == Call("done", 0, "", 0, done(self, now, overflow_checks), now)

DoneWithCount ==
  \E count \in Args :
    Call("done_with_count", count, "", 0,
         done_with_count(self, count, now, overflow_checks), now)

\* the caller assigns a public field
SetLogInterval ==
  \E d \in Intervals :
    /\ ~panicked
    /\ self' = [self EXCEPT !.log_interval = d]
    /\ last' = NoCall
    /\ hist' = [hist EXCEPT !.interval_const = FALSE]
    /\ UNCHANGED << now, overflow_checks, panicked >>

SetExpectedUpdates ==
  \E e \in {None} \cup {Some(n) : n \in Expected} :
    /\ ~panicked
    /\ self' = [self EXCEPT !.expected_updates = e]
    /\ last' = NoCall
    /\ UNCHANGED << now, overflow_checks, panicked, hist >>

\* Display as it would be if rendering marked a status line as emitted
Display_marks_emitted ==
  LET r == fmt(self, now, overflow_checks) IN
    /\ ~panicked
    /\ panicked' = r.panic
    /\ self' = [self EXCEPT !.last_count = self.count,
                            !.last_log_time = now,
                            !.next_log_time = now + self.log_interval]
    /\ last' = [NoCall EXCEPT !.op = "to_string", !.from = Lifecycle(self),
                              !.count0 = self.count, !.ret = r]
    /\ UNCHANGED << now, overflow_checks, hist >>

\* the caller renders the logger itself (to_string), nothing goes to the sink
Display ==
  LET r == fmt(self, now, overflow_checks) IN
    /\ ~panicked
    /\ panicked' = r.panic
    /\ last' = [NoCall EXCEPT !.op = "to_string", !.from = Lifecycle(self),
                              !.count0 = self.count, !.ret = r]
    /\ UNCHANGED << self, now, overflow_checks, hist >>

Next ==
  \/ Tick
  \/ Start
  \/ Update
  \/ UpdateWithCount
  \/ LightUpdate
  \/ UpdateAndDisplay
  \/ Stop
  \/ Done
  \/ DoneWithCount
  \/ SetLogInterval
  \/ SetExpectedUpdates
  \/ Display

Spec == Init /\ [][Next]_vars

\* the tracker configured with `pl.local_speed = true` after construction
InitLocalSpeed ==
  /\ now \in 0 .. 1
  /\ self = [Default(0, now) EXCEPT !.local_speed = TRUE]
  /\ overflow_checks \in BOOLEAN
  /\ panicked = FALSE
  /\ last = NoCall
  /\ hist = NoHist

SpecLocalSpeed == InitLocalSpeed /\ [][Next]_vars

Elapsed ==
  /\ ~panicked
  /\ last' = [NoCall EXCEPT !.op = "elapsed", !.from = Lifecycle(self),
                            !.count0 = self.count, !.val = elapsed(self, now)]
  /\ UNCHANGED << self, now, overflow_checks, panicked, hist >>

NextQuery ==
  \/ Next
  \/ Elapsed

SpecQuery == Init /\ [][NextQuery]_vars

TypeOK ==
  /\ now \in Time
  /\ self.count \in 0 .. MaxCount
  /\ panicked \in BOOLEAN

\* ---- claims -------------------------------------------------------------

C2_StartResets ==
  [][last'.op = "start" =>
       /\ Lifecycle(self') = "Running"
       /\ self'.count = 0
       /\ self'.last_count = 0
       /\ self'.stop_time = None
       /\ self'.start_time = Some(now)
       /\ self'.last_log_time = now
       /\ self'.next_log_time = now + self'.log_interval
       /\ self'.log_interval = self.log_interval
       /\ last'.out = << Message(last'.msg) >>]_vars

C2_Witness ==
  /\ last.op = "start"
  /\ last.from = "Stopped"
  /\ last.count0 > 0
  /\ last.at > 0
  /\ self.log_interval # LogIntervalDefault

\* C3: for update() and update_with_count(n) entered at instant now, a status
\* line is emitted if and only if now >= next_log_time as it stood before the
\* call; when a line is emitted, afterwards last_log_time = now,
\* next_log_time = now + log_interval and last_count = count; when none is
\* emitted, last_log_time, next_log_time and last_count are unchanged.
C3_ThrottleContract ==
  [][last'.op \in {"update", "update_with_count"} =>
       LET due == now >= self.next_log_time IN
         /\ HasStatus(last'.out) <=> due
         /\ self'.count = self.count + (IF last'.op = "update" THEN 1 ELSE last'.arg)
         /\ due =>
              /\ Len(last'.out) = 1
              /\ self'.last_log_time = now
              /\ self'.next_log_time = now + self.log_interval
              /\ self'.last_count = self'.count
         /\ ~due =>
              /\ self'.last_log_time = self.last_log_time
              /\ self'.next_log_time = self.next_log_time
              /\ self'.last_count = self.last_count]_vars

\* C4 (as claimed): with log_interval held constant, any two consecutive
\* status lines of one activity, whatever call emitted them, are at least
\* log_interval apart.
C4_MinSpacingAllLines ==
  [][( /\ HasStatus(last'.out)
       /\ hist.interval_const
       /\ hist.prev_line_at # None )
       => now - Unwrap(hist.prev_line_at) >= self.log_interval]_vars

\* C4 (amended): with log_interval held constant, a status line emitted by
\* update(), update_with_count() or light_update() comes at least log_interval
\* after the start of the activity and after the previous status line that an
\* update call (update_and_display included) emitted in it.
C4_MinSpacingThrottled ==
  [][( /\ HasStatus(last'.out)
       /\ last'.op \in ThrottledOps
       /\ hist.interval_const )
       => /\ now - Unwrap(self.start_time) >= self.log_interval
          /\ hist.prev_log_at # None =>
               now - Unwrap(hist.prev_log_at) >= self.log_interval]_vars

C4_Witness ==
  /\ last.op \in ThrottledOps
  /\ HasStatus(last.out)
  /\ hist.interval_const
  /\ last.since_log = Some(self.log_interval)

\* C5: right after stop(), done() and done_with_count(n) expected_updates is absent,
\* and from then until the next start (stop_time present) no render, taken at
\* any instant, and no status line handed to the sink has a percentage/ETA
\* clause, whatever expected_updates was and is assigned, and whatever is
\* called in between.
C5_NoEtaAfterStop ==
  /\ last.op \in TerminalOps => self.expected_updates = None
  /\ self.stop_time # None =>
       /\ \A t \in now .. MaxTime + 1 :
            LET r == fmt(self, t, overflow_checks) IN
              ~r.panic /\ r.eta = None
       /\ \A i \in 1 .. Len(last.out) :
            last.out[i].kind = "status" => last.out[i].render.eta = None
       /\ last.op = "to_string" => last.ret.eta = None

C5_Witness ==
  /\ self.stop_time # None
  /\ self.expected_updates # None
  /\ last.op = "to_string"
  /\ last.ret.branch = "stopped"
  /\ last.ret.eta = None
  /\ last.count0 > 0

\* C6 (as claimed): done(), called on a started tracker, fixes the stop
\* instant, then hands "Completed." to the sink, then exactly one render of the
\* Stopped state; done_with_count(n) sets count to n first, and the final
\* render reports count n.
C6_DoneReportsCount ==
  [][( /\ last'.op \in {"done", "done_with_count"}
       /\ last'.from # "NotStarted" )
       => /\ self'.stop_time = Some(now)
          /\ Lifecycle(self') = "Stopped"
          /\ Len(last'.out) = 2
          /\ last'.out[1] = Message("Completed.")
          /\ last'.out[2] = Status(fmt(self', now', overflow_checks))
          /\ last'.out[2].render.branch = "stopped"
          /\ last'.out[2].render.elapsed = Some(now - Unwrap(self.start_time))
          /\ last'.op = "done" => self'.count = self.count
          /\ last'.op = "done_with_count" =>
               /\ self'.count = last'.arg
               /\ last'.out[2].render.count = Some(last'.arg)]_vars

\* C6 (amended): as claimed, except that the final render reports count n
\* only for n > 0; after done_with_count(0) it shows the elapsed time alone.
C6_DoneOrder ==
  [][( /\ last'.op \in {"done", "done_with_count"}
       /\ last'.from # "NotStarted" )
       => /\ self'.stop_time = Some(now)
          /\ Lifecycle(self') = "Stopped"
          /\ Len(last'.out) = 2
          /\ last'.out[1] = Message("Completed.")
          /\ last'.out[2] = Status(fmt(self', now', overflow_checks))
          /\ last'.out[2].render.branch = "stopped"
          /\ last'.out[2].render.elapsed = Some(now - Unwrap(self.start_time))
          /\ last'.op = "done" => self'.count = self.count
          /\ last'.op = "done_with_count" =>
               /\ self'.count = last'.arg
               /\ last'.out[2].render.count =
                    (IF last'.arg = 0 THEN None ELSE Some(last'.arg))]_vars

C6_Witness ==
  /\ last.op = "done_with_count"
  /\ last.from = "Running"
  /\ last.arg > 0
  /\ last.count0 > last.arg
  /\ last.out[2].render.count = Some(last.arg)

\* C7: light_update() increments count by 1 and consults the throttle exactly
\* when the count after the increment is a multiple of LIGHT_UPDATE_MASK + 1;
\* hence LIGHT_UPDATE_MASK + 1 light_update calls in a row after start make at
\* most one throttle check and leave count = LIGHT_UPDATE_MASK + 1.
C7_LightUpdateChecks ==
  [][last'.op = "light_update" =>
       /\ self'.count = self.count + 1
       /\ last'.checks \in {0, 1}
       /\ last'.checks = 1 <=> self'.count % (LIGHT_UPDATE_MASK + 1) = 0
       /\ last'.checks = 0 => last'.out = << >>
       /\ ( /\ hist'.light_calls >= 0
            /\ hist'.light_calls <= LIGHT_UPDATE_MASK + 1 )
            => /\ hist'.light_checks <= 1
               /\ self'.count = hist'.light_calls]_vars

C7_Witness ==
  /\ last.op = "light_update"
  /\ hist.light_calls = LIGHT_UPDATE_MASK + 1
  /\ hist.light_checks = 1
  /\ self.count = LIGHT_UPDATE_MASK + 1
  /\ HasStatus(last.out)

\* C8: update_and_display() always emits exactly one status line, whether or
\* not next_log_time has been reached, after incrementing count by 1, and then
\* last_log_time = now, next_log_time = now + log_interval, last_count = count.
C8_ForcedLine ==
  [][last'.op = "update_and_display" =>
       /\ self'.count = self.count + 1
       /\ Len(last'.out) = 1
       /\ last'.out[1].kind = "status"
       /\ self'.last_log_time = now
       /\ self'.next_log_time = now + self.log_interval
       /\ self'.last_count = self'.count]_vars

\* C9 (as claimed): no call other than start ever decreases count.
C9_CountNeverDecreases ==
  [][last'.op # "start" => self'.count >= self.count]_vars

\* C9 (amended): between two start calls count never decreases under update,
\* update_with_count, light_update, update_and_display, stop and done;
\* done_with_count(n) sets count to n, which may be lower (0 included);
\* start resets it to 0.
C9_CountDecreasesOnlyBySet ==
  [][/\ last'.op \notin {"start", "done_with_count"} => self'.count >= self.count
     /\ last'.op = "done_with_count" => self'.count = last'.arg
     /\ last'.op = "start" => self'.count = 0]_vars

C9_Witness ==
  /\ last.op = "done_with_count"
  /\ last.from = "Running"
  /\ self.count < last.count0
  /\ self.last_count > self.count

\* C10: while Stopped, a render taken at any instant shows the elapsed time
\* stop_time - start_time, and the same render as at any other instant.
C10_StoppedElapsedFrozen ==
  Lifecycle(self) = "Stopped" =>
    \A t \in now .. MaxTime + 1 :
      LET r == fmt(self, t, overflow_checks) IN
        /\ r.elapsed = Some(Unwrap(self.stop_time) - Unwrap(self.start_time))
        /\ r = fmt(self, now, overflow_checks)
        /\ last.op = "to_string" => last.ret = r

C10_Witness ==
  /\ Lifecycle(self) = "Stopped"
  /\ now > Unwrap(self.stop_time)
  /\ Unwrap(self.stop_time) > Unwrap(self.start_time)
  /\ last.op = "to_string"
  /\ last.ret.elapsed = Some(Unwrap(self.stop_time) - Unwrap(self.start_time))

\* C11: rendering the tracker on demand changes none of count, last_count,
\* last_log_time, next_log_time, start_time, stop_time and expected_updates
\* (nor any other field, the clock or the history of the activity), so an
\* update called next emits exactly what it would have emitted without it.
C11_DisplayChangesNothing ==
  [][last'.op = "to_string" =>
       /\ self'.count = self.count
       /\ self'.last_count = self.last_count
       /\ self'.last_log_time = self.last_log_time
       /\ self'.next_log_time = self.next_log_time
       /\ self'.start_time = self.start_time
       /\ self'.stop_time = self.stop_time
       /\ self'.expected_updates = self.expected_updates
       /\ self' = self
       /\ now' = now
       /\ hist' = hist
       /\ last'.out = << >>
       /\ \A t \in now .. MaxTime :
            update(self', t, t, overflow_checks) = update(self, t, t, overflow_checks)]_vars

C11_Witness ==
  /\ last.op = "to_string"
  /\ last.from = "Running"
  /\ last.ret.branch = "running"
  /\ now >= self.next_log_time
  /\ self.count > self.last_count
  /\ self.expected_updates # None

\* C12: a render is the "not started" text, and elapsed() returns None, if and
\* only if start was never called; once start was called both report timing;
\* neither call fails or changes the tracker.
C12_QueriesNeverFail ==
  [][last'.op \in {"to_string", "elapsed"} =>
       /\ self' = self
       /\ ~panicked'
       /\ last'.op = "to_string" =>
            /\ last'.ret.branch = "not_started" <=> ~hist.started
            /\ hist.started => last'.ret.elapsed # None
       /\ last'.op = "elapsed" =>
            /\ last'.val = None <=> ~hist.started
            /\ hist.started =>
                 last'.val = Some(now - Unwrap(self.start_time))]_vars

\* C13 (as claimed): Stopped with count = 0, a render has no rate clause and
\* shows the elapsed time and the zero count.
C13_StoppedZeroShowsCount ==
  (Lifecycle(self) = "Stopped" /\ self.count = 0) =>
    LET r == fmt(self, now, overflow_checks) IN
      /\ r.rate = None
      /\ r.elapsed = Some(Unwrap(self.stop_time) - Unwrap(self.start_time))
      /\ r.count = Some(0)

\* C13 (amended): Stopped with count = 0, a render has neither a rate clause
\* nor a count: it shows the elapsed time only.
C13_StoppedZeroElapsedOnly ==
  (Lifecycle(self) = "Stopped" /\ self.count = 0) =>
    LET r == fmt(self, now, overflow_checks) IN
      /\ r = [NoRender EXCEPT
                !.branch = "stopped",
                !.elapsed = Some(Unwrap(self.stop_time) - Unwrap(self.start_time))]
      /\ last.op = "to_string" => last.ret = r
      /\ last.op \in {"done", "done_with_count"} => last.out[2].render = r

C13_Witness ==
  /\ last.op = "to_string"
  /\ last.from = "Stopped"
  /\ last.count0 = 0
  /\ hist.sum = -1
  /\ last.ret.branch = "stopped"
  /\ last.ret.count = None
  /\ Unwrap(self.stop_time) > Unwrap(self.start_time)

\* C14: every rate or ETA clause of a render has a non-zero denominator:
\* count for the whole-run rate, count - last_count for the interval speed,
\* count + 1 for the ETA; a render taken while Running with count = 0 included.
C14_NoZeroDenominator ==
  LET r == fmt(self, now, overflow_checks) IN
    ~r.panic =>
      /\ r.rate # None => Unwrap(r.rate)[2] # 0
      /\ r.local # None => Unwrap(r.local)[2] # 0
      /\ r.eta # None => Unwrap(r.eta)[3] # 0

\* C15: no render fails: in every Running state with expected_updates = E,
\* E - count is non-negative, so the usize subtraction does not underflow.
C15_EtaNeverUnderflows ==
  (Lifecycle(self) = "Running" /\ self.expected_updates # None) =>
    /\ Unwrap(self.expected_updates) - self.count >= 0
    /\ ~fmt(self, now, overflow_checks).panic

\* C16: in a run of start followed only by light_update calls, once the clock
\* has reached next_log_time a status line is emitted within LIGHT_UPDATE_MASK
\* + 1 further light_update calls: never more than LIGHT_UPDATE_MASK calls in
\* a row are entered at or after next_log_time without emitting one.
C16_LightUpdateBoundedStaleness ==
  hist.overdue <= LIGHT_UPDATE_MASK

\* C17 (as claimed): once stop_time is set, no call other than the next start
\* changes it (a second stop() or a done() after stop() leaves it unchanged),
\* and no call other than stop, done, done_with_count and start changes it.
C17_StopTimeSetOnce ==
  [][/\ (self.stop_time # None /\ last'.op # "start") =>
          self'.stop_time = self.stop_time
     /\ last'.op \notin TerminalOps \cup {"start"} =>
          self'.stop_time = self.stop_time]_vars

\* C17 (amended): every stop, done and done_with_count call sets stop_time to
\* the instant of the call, also when it was already set; start clears it;
\* nothing else changes it.
C17_StopTimeSetByEachTerminalCall ==
  [][/\ last'.op \in TerminalOps => self'.stop_time = Some(now)
     /\ last'.op = "start" => self'.stop_time = None
     /\ last'.op \notin TerminalOps \cup {"start"} =>
          self'.stop_time = self.stop_time]_vars

C17_Witness ==
  /\ last.op \in {"stop", "done"}
  /\ last.from = "Stopped"
  /\ self.stop_time = Some(last.at)
  /\ hist.prev_line_at # None
  /\ Unwrap(hist.prev_line_at) < last.at
  /\ Unwrap(self.start_time) < Unwrap(hist.prev_line_at)

\* C18 (as claimed): in every reachable state, NotStarted included,
\* next_log_time = last_log_time + log_interval.
C18_NextLogDerived ==
  self.next_log_time = self.last_log_time + self.log_interval

\* C18 (amended): start and every status line emitted by an update call
\* establish next_log_time = last_log_time + log_interval, and every step that
\* leaves log_interval at its value preserves it.
C18_NextLogDerivedWhenLogged ==
  [][/\ (last'.op = "start" \/ (last'.op \in UpdateOps /\ HasStatus(last'.out))) =>
          self'.next_log_time = self'.last_log_time + self'.log_interval
     /\ (/\ self.next_log_time = self.last_log_time + self.log_interval
         /\ self'.log_interval = self.log_interval) =>
          self'.next_log_time = self'.last_log_time + self'.log_interval]_vars

C18_Witness ==
  /\ last.op \in ThrottledOps
  /\ last.from = "Running"
  /\ HasStatus(last.out)
  /\ ~hist.interval_const
  /\ self.log_interval # LogIntervalDefault
  /\ self.last_log_time = last.at
  /\ self.next_log_time = last.at + self.log_interval

\* C19: in every Running state last_count <= count, so the interval speed's
\* count - last_count does not underflow, whatever calls came before.
C19_LastCountAtMostCount ==
  Lifecycle(self) = "Running" =>
    /\ self.last_count <= self.count
    /\ LET r == fmt(self, now, overflow_checks) IN
         r.local # None => Unwrap(r.local)[2] >= 0

C19_Witness ==
  /\ last.op = "to_string"
  /\ last.from = "Running"
  /\ self.last_count > 0
  /\ hist.sum > self.last_count
  /\ last.ret.local = Some(<<now - self.last_log_time,
                              self.count - self.last_count>>)

\* C20: while Running, every status line emitted by update, light_update or
\* update_and_display is rendered before last_count is refreshed: its interval
\* speed is over count - last_count >= 1 items, and the snapshot is refreshed
\* afterwards.
C20_RenderBeforeSnapshot ==
  (/\ last.op \in {"update", "light_update", "update_and_display"}
   /\ last.from = "Running"
   /\ HasStatus(last.out)) =>
    /\ last.out[1].render.local # None
    /\ Unwrap(last.out[1].render.local)[2] >= 1
    /\ last.out[1].render.count = Some(last.count0 + 1)
    /\ self.last_count = self.count

C20_Witness ==
  /\ last.op = "update_and_display"
  /\ last.from = "Running"
  /\ last.since_log = Some(0)
  /\ HasStatus(last.out)
  /\ last.out[1].render.local = Some(<<0, 1>>)

====
